---- MODULE Spec2Model ----
(***************************************************************************)
(* State-machine model of the recitation practice application:             *)
(*   App (src/unnamed/part_000): screens, practice state, recorder refs,   *)
(*     startRecording / stopRecording / onstop / onloadend, navigation;    *)
(*   analyzeRecitation (src/unnamed/part_001): one service call, fallback; *)
(*   SetupScreen (src/components/SetupScreen.tsx): parse, select, start.   *)
(* Every event handler is one action.  Asynchronous continuations (the     *)
(* recorder's stop task, FileReader.onloadend, the awaited service call,   *)
(* the toast timer, the parse call) are separate actions, because other    *)
(* events can be handled between them and the handler that queued them.    *)
(***************************************************************************)
EXTENDS Integers, Sequences, FiniteSets, TLC

(* ---------------- bounds of the model ---------------- *)
MaxSegments == 2
MaxOrphans == 1
MaxChunks == 2
MaxAttempts == 2
MaxElapsed == 500
TickMs == 500
ChunkBytes == 500

(* ---------------- program constants ---------------- *)
MinDurationMs == 500
MinBlobBytes == 1000
MinBase64Len == 100
GoodThreshold == 80

Texts == {"A"}
ServiceAccuracies == {50, 80, 100, 120}
ServiceCorrections == {0, 2}

VARIABLES
  screen, lessonData, currentIndex, appState, feedback, showEnglish,
  audioStream, totalScore, attemptCount,
  mediaRecorderRef, orphans, chunksRef, elapsed,
  step, parsedSegments, selectedIds, isShuffle, isLoading,
  notice

\* mediaRecorderRef is the recorder the ref points to; orphans are the earlier
\* recorders whose callbacks are still to run, oldest first; elapsed is
\* Date.now() - startTimeRef.current; notice is what the last handled event
\* told the user (showToast / alert), or that a start gesture was ignored
appVars == <<screen, lessonData, currentIndex, appState, feedback, showEnglish,
             audioStream, totalScore, attemptCount>>
recVars == <<mediaRecorderRef, orphans, chunksRef, elapsed>>
setupVars == <<step, parsedSegments, selectedIds, isShuffle, isLoading>>
vars == <<appVars, recVars, setupVars, notice>>

(* ---------------- values ---------------- *)
NoSegment == [id |-> 0, english |-> "none"]
NoFeedback == [accuracy |-> -1, fallback |-> FALSE, segment |-> NoSegment]
\* a recorder with its onstop / onloadend closures: the MediaRecorder state,
\* how far its callbacks got, the currentSegment the closures captured, the
\* size of the blob, and how often analyzeRecitation was called / the service
\* contacted for it
NoRecorder == [state |-> "inactive", phase |-> "none", segment |-> NoSegment,
               size |-> 0, calls |-> 0, contacted |-> 0]
FinishedRecorder == [NoRecorder EXCEPT !.phase = "finished"]

Min(a, b) == IF a < b THEN a ELSE b

RECURSIVE SumSizes(_)
SumSizes(chunks) ==
  IF chunks = <<>> THEN 0 ELSE Head(chunks).size + SumSizes(Tail(chunks))

\* length of the base64 text of a blob of n bytes, after the data-URI prefix
Base64Len(n) == 4 * ((n + 2) \div 3)

currentSegment ==
  IF currentIndex < Len(lessonData) THEN lessonData[currentIndex + 1] ELSE NoSegment
isLastSegment == currentIndex = Len(lessonData) - 1

\* rendering the practice screen reads currentSegment.chinese: with no
\* segment at currentIndex the render throws and React unmounts the tree
Unmounted == screen = "PRACTICE" /\ currentIndex >= Len(lessonData)

\* handle 0 is the recorder of mediaRecorderRef, handle i > 0 is orphans[i]
Handles == 0..Len(orphans)
Rec(h) == IF h = 0 THEN mediaRecorderRef ELSE orphans[h]
RemoveAt(seq, i) == SubSeq(seq, 1, i - 1) \o SubSeq(seq, i + 1, Len(seq))

\* the recorder of handle h becomes rec
Put(h, rec) ==
  IF h = 0 THEN /\ mediaRecorderRef' = rec
                /\ UNCHANGED orphans
  ELSE /\ orphans' = [orphans EXCEPT ![h] = rec]
       /\ UNCHANGED mediaRecorderRef

\* the last callback of the recorder of handle h has run
Finish(h) ==
  IF h = 0 THEN /\ mediaRecorderRef' = FinishedRecorder
                /\ UNCHANGED orphans
  ELSE /\ orphans' = RemoveAt(orphans, h)
       /\ UNCHANGED mediaRecorderRef

(* ---------------- initial state ---------------- *)
Init ==
  /\ screen = "SETUP"
  /\ lessonData = <<>>
  /\ currentIndex = 0
  /\ appState = "IDLE"
  /\ feedback = NoFeedback
  /\ showEnglish = FALSE
  /\ audioStream = FALSE
  /\ totalScore = 0
  /\ attemptCount = 0
  /\ mediaRecorderRef = NoRecorder
  /\ orphans = <<>>
  /\ chunksRef = <<>>
  /\ elapsed = 0
  /\ step = "INPUT"
  /\ parsedSegments = <<>>
  /\ selectedIds = {}
  /\ isShuffle = FALSE
  /\ isLoading = FALSE
  /\ notice = "none"

\* getMic effect: getUserMedia resolves with a stream
GetMic ==
  /\ ~audioStream
  /\ audioStream' = TRUE
  /\ notice' = "none"
  /\ UNCHANGED <<screen, lessonData, currentIndex, appState, feedback, showEnglish,
                 totalScore, attemptCount, recVars, setupVars>>

(* ---------------- recording session ---------------- *)
\* the bottom control bar (start/stop button) is rendered
ControlBarShown ==
  /\ ~Unmounted
  /\ screen = "PRACTICE"
  /\ appState \notin {"FEEDBACK", "ANALYZING"}

RecorderCapturing == mediaRecorderRef.state = "recording"

\* variant: the guard looks at the practice state only
AlreadyRecording_StateOnly == appState = "RECORDING"

\* the re-entrancy guard of startRecording
AlreadyRecording == appState = "RECORDING" \/ RecorderCapturing

CallbacksPending(rec) == rec.phase \in {"capturing", "stopping", "reading", "analyzing"}

\* variant: the recorder is created without looking at the audio stream
StartRecording_NoStreamCheck(ok) ==
  /\ ControlBarShown
  /\ IF AlreadyRecording
       THEN /\ notice' = "start ignored"
            /\ UNCHANGED <<appVars, recVars, setupVars>>
     ELSE /\ chunksRef' = <<>>
          /\ elapsed' = 0
          /\ IF ok
               THEN /\ CallbacksPending(mediaRecorderRef) => Len(orphans) < MaxOrphans
                    /\ mediaRecorderRef' =
                          [NoRecorder EXCEPT !.state = "recording", !.phase = "capturing",
                                             !.segment = currentSegment]
                    /\ orphans' = IF CallbacksPending(mediaRecorderRef)
                                    THEN Append(orphans, mediaRecorderRef)
                                    ELSE orphans
                    /\ appState' = "RECORDING"
                    /\ notice' = "none"
               ELSE /\ notice' = "alert: Could not start recording"
                    /\ UNCHANGED <<mediaRecorderRef, orphans, appState>>
          /\ UNCHANGED <<screen, lessonData, currentIndex, feedback, showEnglish,
                         audioStream, totalScore, attemptCount, setupVars>>

\* mousedown / touchstart on the main action button; ok: the MediaRecorder
\* constructor does not throw
StartRecording(ok) ==
  /\ ControlBarShown
  /\ IF AlreadyRecording
       THEN /\ notice' = "start ignored"
            /\ UNCHANGED <<appVars, recVars, setupVars>>
     ELSE IF ~audioStream
       THEN /\ notice' = "alert: Microphone not found"
            /\ UNCHANGED <<appVars, recVars, setupVars>>
     ELSE /\ chunksRef' = <<>>
          /\ elapsed' = 0
          /\ IF ok
               THEN /\ CallbacksPending(mediaRecorderRef) => Len(orphans) < MaxOrphans
                    /\ mediaRecorderRef' =
                          [NoRecorder EXCEPT !.state = "recording", !.phase = "capturing",
                                             !.segment = currentSegment]
                    /\ orphans' = IF CallbacksPending(mediaRecorderRef)
                                    THEN Append(orphans, mediaRecorderRef)
                                    ELSE orphans
                    /\ appState' = "RECORDING"
                    /\ notice' = "none"
               ELSE /\ notice' = "alert: Could not start recording"
                    /\ UNCHANGED <<mediaRecorderRef, orphans, appState>>
          /\ UNCHANGED <<screen, lessonData, currentIndex, feedback, showEnglish,
                         audioStream, totalScore, attemptCount, setupVars>>

\* mediaRecorder.ondataavailable fired by the 100 ms timeslice
DataAvailable ==
  /\ mediaRecorderRef.state = "recording"
  /\ Len(chunksRef) < MaxChunks
  /\ chunksRef' = Append(chunksRef, [own |-> TRUE, size |-> ChunkBytes])
  /\ notice' = "none"
  /\ UNCHANGED <<appVars, mediaRecorderRef, orphans, elapsed, setupVars>>

\* wall-clock time passes while some capture is being taken or finalized
Tick ==
  /\ \E h \in Handles : Rec(h).phase \in {"capturing", "stopping"}
  /\ elapsed < MaxElapsed
  /\ elapsed' = Min(elapsed + TickMs, MaxElapsed)
  /\ notice' = "none"
  /\ UNCHANGED <<appVars, mediaRecorderRef, orphans, chunksRef, setupVars>>

\* variant: the recorder is stopped whatever its state
stopRecording_NoGuard ==
  /\ ControlBarShown
  /\ IF mediaRecorderRef.phase # "none"
       THEN /\ mediaRecorderRef' = [mediaRecorderRef EXCEPT !.state = "inactive",
                                                            !.phase = "stopping"]
            /\ notice' = "none"
       ELSE /\ notice' = "stop ignored"
            /\ UNCHANGED mediaRecorderRef
  /\ UNCHANGED <<appVars, orphans, chunksRef, elapsed, setupVars>>

\* mouseup / mouseleave / touchend on the main action button
stopRecording ==
  /\ ControlBarShown
  /\ IF RecorderCapturing
       THEN /\ mediaRecorderRef' = [mediaRecorderRef EXCEPT !.state = "inactive",
                                                            !.phase = "stopping"]
            /\ notice' = "none"
       ELSE /\ notice' = "stop ignored"
            /\ UNCHANGED mediaRecorderRef
  /\ UNCHANGED <<appVars, orphans, chunksRef, elapsed, setupVars>>

\* variant: both gates must fail for a rejection
GateRejects_Both(duration, size) == duration < MinDurationMs /\ size < MinBlobBytes

\* variant: a capture of exactly the minimal duration is rejected too
GateRejects_Inclusive(duration, size) == duration <= MinDurationMs \/ size < MinBlobBytes

GateRejects(duration, size) == duration < MinDurationMs \/ size < MinBlobBytes

\* the recorder's stop task: the last dataavailable, then mediaRecorder.onstop
OnStop(h, last) ==
  /\ Rec(h).phase = "stopping"
  /\ last > 0 => Len(chunksRef) < MaxChunks
  /\ LET chunks == IF last > 0
                     THEN Append(chunksRef, [own |-> h = 0, size |-> last])
                     ELSE chunksRef
         duration == elapsed
         size == SumSizes(chunks)
     IN /\ chunksRef' = chunks
        /\ IF GateRejects(duration, size)
             THEN /\ appState' = "IDLE"
                  /\ notice' = "toast: Hold button to speak"
                  /\ Finish(h)
             ELSE /\ appState' = "ANALYZING"
                  /\ notice' = "none"
                  /\ Put(h, [Rec(h) EXCEPT !.phase = "reading", !.size = size])
  /\ UNCHANGED <<screen, lessonData, currentIndex, feedback, showEnglish, audioStream,
                 totalScore, attemptCount, elapsed, setupVars>>

(* ---------------- submission ---------------- *)
\* the object of the catch block: accuracy 0 and one entry in corrections
FallbackResult == [accuracy |-> 0, fallback |-> TRUE, corrections |-> 1]

\* how the generateContent call can end: it throws, the response has no text,
\* the text does not parse, or it parses to an object with some accuracy and
\* some number of corrections
ServiceOutcomes ==
  {[kind |-> k, accuracy |-> 0, corrections |-> 0] :
     k \in {"throws", "notext", "unparsable"}}
    \cup {[kind |-> "json", accuracy |-> a, corrections |-> c] :
            a \in ServiceAccuracies, c \in ServiceCorrections}

\* what analyzeRecitation returns for an outcome of the service call
AnalysisResult(outcome) ==
  IF outcome.kind \in {"throws", "notext", "unparsable"}
    THEN FallbackResult
    ELSE [accuracy |-> outcome.accuracy, fallback |-> FALSE,
          corrections |-> outcome.corrections]

\* variant: the threshold itself does not count as good
IsGood_Strict(result) == result.accuracy > GoodThreshold

IsGood(result) == result.accuracy >= GoodThreshold

\* variant: a failed analysis escapes as an error instead of a fallback result
Deliver_ErrorEscapes(h, result) ==
  /\ IsGood(result) => attemptCount < MaxAttempts
  /\ IF result.fallback
       THEN UNCHANGED <<feedback, totalScore, attemptCount, appState>>
       ELSE /\ feedback' = [accuracy |-> result.accuracy, fallback |-> result.fallback,
                            segment |-> Rec(h).segment]
            /\ totalScore' = IF IsGood(result) THEN totalScore + result.accuracy
                             ELSE totalScore
            /\ attemptCount' = IF IsGood(result) THEN attemptCount + 1 ELSE attemptCount
            /\ appState' = "FEEDBACK"
  /\ Finish(h)

\* the tail of reader.onloadend after the awaited analyzeRecitation returned
Deliver(h, result) ==
  /\ IsGood(result) => attemptCount < MaxAttempts
  /\ feedback' = [accuracy |-> result.accuracy, fallback |-> result.fallback,
                  segment |-> Rec(h).segment]
  /\ totalScore' = IF IsGood(result) THEN totalScore + result.accuracy ELSE totalScore
  /\ attemptCount' = IF IsGood(result) THEN attemptCount + 1 ELSE attemptCount
  /\ appState' = "FEEDBACK"
  /\ Finish(h)

\* reader.onloadend up to the call of analyzeRecitation
OnLoadEnd(h) ==
  /\ Rec(h).phase = "reading"
  /\ LET b64 == Base64Len(Rec(h).size)
     IN IF b64 = 0
          THEN /\ appState' = "IDLE"
               /\ notice' = "toast: Audio recording failed"
               /\ Finish(h)
               /\ UNCHANGED <<feedback, totalScore, attemptCount>>
        ELSE IF b64 < MinBase64Len
          THEN /\ Deliver(h, FallbackResult)
               /\ notice' = "none"
        ELSE /\ Put(h, [Rec(h) EXCEPT !.phase = "analyzing", !.calls = @ + 1,
                                      !.contacted = @ + 1])
             /\ notice' = "none"
             /\ UNCHANGED <<appState, feedback, totalScore, attemptCount>>
  /\ UNCHANGED <<screen, lessonData, currentIndex, showEnglish, audioStream,
                 chunksRef, elapsed, setupVars>>

\* variant: a failed service call is repeated once before giving up
AnalysisResolved_Retries(h, outcome) ==
  /\ Rec(h).phase = "analyzing"
  /\ IF outcome.kind # "json" /\ Rec(h).contacted < 2
       THEN /\ Put(h, [Rec(h) EXCEPT !.contacted = @ + 1])
            /\ UNCHANGED <<appState, feedback, totalScore, attemptCount>>
       ELSE Deliver(h, AnalysisResult(outcome))
  /\ notice' = "none"
  /\ UNCHANGED <<screen, lessonData, currentIndex, showEnglish, audioStream,
                 chunksRef, elapsed, setupVars>>

\* the service call of analyzeRecitation settles and onloadend resumes
AnalysisResolved(h, outcome) ==
  /\ Rec(h).phase = "analyzing"
  /\ Deliver(h, AnalysisResult(outcome))
  /\ notice' = "none"
  /\ UNCHANGED <<screen, lessonData, currentIndex, showEnglish, audioStream,
                 chunksRef, elapsed, setupVars>>

(* ---------------- navigation ---------------- *)
SetupInit ==
  /\ step' = "INPUT"
  /\ parsedSegments' = <<>>
  /\ selectedIds' = {}
  /\ isShuffle' = FALSE
  /\ isLoading' = FALSE

startLesson(data) ==
  /\ lessonData' = data
  /\ currentIndex' = 0
  /\ totalScore' = 0
  /\ attemptCount' = 0
  /\ feedback' = NoFeedback
  /\ showEnglish' = FALSE
  /\ appState' = "IDLE"
  /\ screen' = "PRACTICE"

\* header logo / "Change Lesson" / "Choose New Text"
returnToSetup ==
  /\ ~Unmounted
  /\ appState' = "IDLE"
  /\ screen' = "SETUP"
  /\ IF screen = "SETUP" THEN UNCHANGED setupVars ELSE SetupInit
  /\ notice' = "none"
  /\ UNCHANGED <<lessonData, currentIndex, feedback, showEnglish, audioStream,
                 totalScore, attemptCount, recVars>>

ResultCardShown ==
  /\ ~Unmounted
  /\ screen = "PRACTICE"
  /\ appState = "FEEDBACK"
  /\ feedback # NoFeedback

\* variant: advancing also clears the running aggregate
handleNext_ResetsProgress ==
  /\ ResultCardShown
  /\ IF isLastSegment
       THEN /\ screen' = "COMPLETED"
            /\ appState' = "COMPLETED"
            /\ UNCHANGED <<currentIndex, feedback, showEnglish>>
       ELSE /\ currentIndex' = currentIndex + 1
            /\ appState' = "IDLE"
            /\ feedback' = NoFeedback
            /\ showEnglish' = FALSE
            /\ UNCHANGED screen
  /\ totalScore' = 0
  /\ attemptCount' = 0
  /\ notice' = "none"
  /\ UNCHANGED <<lessonData, audioStream, recVars, setupVars>>

\* variant: advancing leaves the hint as it was
handleNext_KeepsHint ==
  /\ ResultCardShown
  /\ IF isLastSegment
       THEN /\ screen' = "COMPLETED"
            /\ appState' = "COMPLETED"
            /\ UNCHANGED <<currentIndex, feedback>>
       ELSE /\ currentIndex' = currentIndex + 1
            /\ appState' = "IDLE"
            /\ feedback' = NoFeedback
            /\ UNCHANGED screen
  /\ notice' = "none"
  /\ UNCHANGED <<lessonData, showEnglish, audioStream, totalScore, attemptCount,
                 recVars, setupVars>>

handleNext ==
  /\ ResultCardShown
  /\ IF isLastSegment
       THEN /\ screen' = "COMPLETED"
            /\ appState' = "COMPLETED"
            /\ UNCHANGED <<currentIndex, feedback, showEnglish>>
       ELSE /\ currentIndex' = currentIndex + 1
            /\ appState' = "IDLE"
            /\ feedback' = NoFeedback
            /\ showEnglish' = FALSE
            /\ UNCHANGED screen
  /\ notice' = "none"
  /\ UNCHANGED <<lessonData, audioStream, totalScore, attemptCount,
                 recVars, setupVars>>

\* variant: retry keeps the previous result
handleRetry_KeepsFeedback ==
  /\ ResultCardShown
  /\ appState' = "IDLE"
  /\ notice' = "none"
  /\ UNCHANGED <<screen, lessonData, currentIndex, feedback, showEnglish, audioStream,
                 totalScore, attemptCount, recVars, setupVars>>

handleRetry ==
  /\ ResultCardShown
  /\ appState' = "IDLE"
  /\ feedback' = NoFeedback
  /\ notice' = "none"
  /\ UNCHANGED <<screen, lessonData, currentIndex, showEnglish, audioStream,
                 totalScore, attemptCount, recVars, setupVars>>

\* variant: restarting reorders the lesson (here: reverses it)
handleRestart_Reshuffles ==
  /\ screen = "COMPLETED"
  /\ currentIndex' = 0
  /\ appState' = "IDLE"
  /\ feedback' = NoFeedback
  /\ totalScore' = 0
  /\ attemptCount' = 0
  /\ showEnglish' = FALSE
  /\ screen' = "PRACTICE"
  /\ lessonData' = [i \in 1..Len(lessonData) |-> lessonData[Len(lessonData) + 1 - i]]
  /\ notice' = "none"
  /\ UNCHANGED <<audioStream, recVars, setupVars>>

handleRestart ==
  /\ screen = "COMPLETED"
  /\ currentIndex' = 0
  /\ appState' = "IDLE"
  /\ feedback' = NoFeedback
  /\ totalScore' = 0
  /\ attemptCount' = 0
  /\ showEnglish' = FALSE
  /\ screen' = "PRACTICE"
  /\ notice' = "none"
  /\ UNCHANGED <<lessonData, audioStream, recVars, setupVars>>

\* "Need a hint?"
ShowHint ==
  /\ ~Unmounted
  /\ screen = "PRACTICE"
  /\ ~showEnglish
  /\ appState = "IDLE"
  /\ showEnglish' = TRUE
  /\ notice' = "none"
  /\ UNCHANGED <<screen, lessonData, currentIndex, appState, feedback, audioStream,
                 totalScore, attemptCount, recVars, setupVars>>

\* variant: the average is truncated instead of rounded
calculateFinalScore_Truncates ==
  IF attemptCount = 0 THEN 0 ELSE totalScore \div attemptCount

calculateFinalScore ==
  IF attemptCount = 0 THEN 0
  ELSE (2 * totalScore + attemptCount) \div (2 * attemptCount)

(* ---------------- setup screen ---------------- *)
SegmentIds(segs) == {segs[i].id : i \in 1..Len(segs)}

handleAnalyze ==
  /\ screen = "SETUP"
  /\ step = "INPUT"
  /\ ~isLoading
  /\ isLoading' = TRUE
  /\ notice' = "none"
  /\ UNCHANGED <<appVars, recVars, step, parsedSegments, selectedIds, isShuffle>>

\* parseLearningContent resolved: ids are assigned, then the select-all effect runs
ParseResolved(n, t) ==
  /\ screen = "SETUP"
  /\ isLoading
  /\ parsedSegments' = [i \in 1..n |-> [id |-> i, english |-> t]]
  /\ step' = "CONFIG"
  /\ isLoading' = FALSE
  /\ selectedIds' = IF n > 0 THEN 1..n ELSE selectedIds
  /\ notice' = "none"
  /\ UNCHANGED <<appVars, recVars, isShuffle>>

ParseFailed ==
  /\ screen = "SETUP"
  /\ isLoading
  /\ isLoading' = FALSE
  /\ notice' = "none"
  /\ UNCHANGED <<appVars, recVars, step, parsedSegments, selectedIds, isShuffle>>

BackToInput ==
  /\ screen = "SETUP"
  /\ step = "CONFIG"
  /\ step' = "INPUT"
  /\ notice' = "none"
  /\ UNCHANGED <<appVars, recVars, parsedSegments, selectedIds, isShuffle, isLoading>>

toggleSegment(id) ==
  /\ screen = "SETUP"
  /\ step = "CONFIG"
  /\ id \in SegmentIds(parsedSegments)
  /\ selectedIds' = IF id \in selectedIds THEN selectedIds \ {id}
                    ELSE selectedIds \cup {id}
  /\ notice' = "none"
  /\ UNCHANGED <<appVars, recVars, step, parsedSegments, isShuffle, isLoading>>

toggleSelectAll ==
  /\ screen = "SETUP"
  /\ step = "CONFIG"
  /\ selectedIds' = IF Cardinality(selectedIds) = Len(parsedSegments) THEN {}
                    ELSE SegmentIds(parsedSegments)
  /\ selectedIds' # selectedIds
  /\ notice' = "none"
  /\ UNCHANGED <<appVars, recVars, step, parsedSegments, isShuffle, isLoading>>

setIsShuffle(b) ==
  /\ screen = "SETUP"
  /\ step = "CONFIG"
  /\ b # isShuffle
  /\ isShuffle' = b
  /\ notice' = "none"
  /\ UNCHANGED <<appVars, recVars, step, parsedSegments, selectedIds, isLoading>>

\* variant: the selection is ignored
Filter_KeepsAll(segs, ids) == segs

RECURSIVE Filter(_, _)
Filter(segs, ids) ==
  IF segs = <<>> THEN <<>>
  ELSE IF Head(segs).id \in ids THEN <<Head(segs)>> \o Filter(Tail(segs), ids)
  ELSE Filter(Tail(segs), ids)

\* the orders the Fisher-Yates loop can leave a sequence in
Shuffles(s) ==
  {[i \in 1..Len(s) |-> s[p[i]]] :
     p \in {q \in [1..Len(s) -> 1..Len(s)] :
              \A i, j \in 1..Len(s) : i # j => q[i] # q[j]}}

handleStartLesson ==
  /\ screen = "SETUP"
  /\ step = "CONFIG"
  /\ selectedIds # {}
  /\ LET finalSegments == Filter(parsedSegments, selectedIds)
     IN \E data \in (IF isShuffle THEN Shuffles(finalSegments) ELSE {finalSegments}) :
          startLesson(data)
  /\ notice' = "none"
  /\ UNCHANGED <<audioStream, recVars, setupVars>>

\* every lesson the setup screen can hand to onStart: the selected ones of the
\* parsed segments (ids 1..n), in parsed order or shuffled; none of them when
\* the selection is left over from an earlier parse
SetupOutputs ==
  UNION {Shuffles(Filter([i \in 1..n |-> [id |-> i, english |-> t]], ids)) :
           n \in 0..MaxSegments, t \in Texts, ids \in SUBSET (1..MaxSegments) \ {{}}}

\* the setup screen calls onStart (= startLesson); setup steps before it touch
\* only the setup screen's own state
onStart(data) ==
  /\ screen = "SETUP"
  /\ startLesson(data)
  /\ notice' = "none"
  /\ UNCHANGED <<audioStream, recVars, setupVars>>

(* ---------------- specification ---------------- *)
UserAction ==
  \/ \E ok \in BOOLEAN : StartRecording(ok)
  \/ stopRecording
  \/ ShowHint
  \/ handleRetry
  \/ handleNext
  \/ handleRestart
  \/ returnToSetup
  \/ \E data \in SetupOutputs : onStart(data)

Next ==
  \/ GetMic
  \/ \E ok \in BOOLEAN : StartRecording(ok)
  \/ DataAvailable
  \/ Tick
  \/ stopRecording
  \/ \E h \in Handles, last \in {0, ChunkBytes} : OnStop(h, last)
  \/ \E h \in Handles : OnLoadEnd(h)
  \/ \E h \in Handles, outcome \in ServiceOutcomes : AnalysisResolved(h, outcome)
  \/ ShowHint
  \/ handleRetry
  \/ handleNext
  \/ handleRestart
  \/ returnToSetup
  \/ \E data \in SetupOutputs : onStart(data)

Spec == Init /\ [][Next]_vars

\* the setup screen on its own: its handlers, and the way back to it
SetupNext ==
  \/ handleAnalyze
  \/ \E n \in 0..MaxSegments, t \in Texts : ParseResolved(n, t)
  \/ ParseFailed
  \/ BackToInput
  \/ \E id \in 1..MaxSegments : toggleSegment(id)
  \/ toggleSelectAll
  \/ \E b \in BOOLEAN : setIsShuffle(b)
  \/ handleStartLesson
  \/ returnToSetup

SetupSpec == Init /\ [][SetupNext]_vars

\* the event loop runs every queued task, and the service call settles
Fairness ==
  \A i \in 0..MaxOrphans :
    /\ WF_vars(\E last \in {0, ChunkBytes} : i \in Handles /\ OnStop(i, last))
    /\ WF_vars(i \in Handles /\ OnLoadEnd(i))
    /\ WF_vars(\E outcome \in ServiceOutcomes : i \in Handles /\ AnalysisResolved(i, outcome))

FairSpec == Spec /\ Fairness

\* the submission pipeline on its own: reader.onloadend is entered with the
\* encoding of a blob of any of these sizes (base64 lengths 0, 96, 100 and
\* 1336), as if the gates of onstop had let it through
PayloadSizes == {0, 72, 73, MinBlobBytes}

PipelineInit ==
  /\ screen = "PRACTICE"
  /\ lessonData \in {d \in SetupOutputs : d # <<>>}
  /\ currentIndex \in 0..(Len(lessonData) - 1)
  /\ appState = "ANALYZING"
  /\ feedback = NoFeedback
  /\ showEnglish = FALSE
  /\ audioStream = TRUE
  /\ totalScore = 0
  /\ attemptCount = 0
  /\ mediaRecorderRef \in {[NoRecorder EXCEPT !.phase = "reading", !.size = n,
                                              !.segment = lessonData[currentIndex + 1]] :
                              n \in PayloadSizes}
  /\ orphans = <<>>
  /\ chunksRef = <<>>
  /\ elapsed = MaxElapsed
  /\ step = "INPUT"
  /\ parsedSegments = <<>>
  /\ selectedIds = {}
  /\ isShuffle = FALSE
  /\ isLoading = FALSE
  /\ notice = "none"

PipelineNext ==
  \/ \E h \in Handles : OnLoadEnd(h)
  \/ \E h \in Handles, outcome \in ServiceOutcomes : AnalysisResolved(h, outcome)
  \/ handleRetry
  \/ handleNext
  \/ handleRestart

PipelineSpec == PipelineInit /\ [][PipelineNext]_vars

\* one run of a three-segment sequential lesson, never left for the setup
\* screen, with the service answering 50, 85, 90 or 100 (or failing)
ScenarioScores == <<90, 50, 100>>
ScenarioAccuracies == {50, 85, 90, 100}

ScenarioLesson == [i \in 1..Len(ScenarioScores) |-> [id |-> i, english |-> "A"]]

ScenarioOutcomes ==
  {[kind |-> "throws", accuracy |-> 0, corrections |-> 0]}
    \cup {[kind |-> "json", accuracy |-> a, corrections |-> 0] : a \in ScenarioAccuracies}

ScenarioInit ==
  /\ screen = "PRACTICE"
  /\ lessonData = ScenarioLesson
  /\ currentIndex = 0
  /\ appState = "IDLE"
  /\ feedback = NoFeedback
  /\ showEnglish = FALSE
  /\ audioStream = TRUE
  /\ totalScore = 0
  /\ attemptCount = 0
  /\ mediaRecorderRef = NoRecorder
  /\ orphans = <<>>
  /\ chunksRef = <<>>
  /\ elapsed = 0
  /\ step = "INPUT"
  /\ parsedSegments = <<>>
  /\ selectedIds = {}
  /\ isShuffle = FALSE
  /\ isLoading = FALSE
  /\ notice = "none"

ScenarioNext ==
  \/ \E ok \in BOOLEAN : StartRecording(ok)
  \/ DataAvailable
  \/ Tick
  \/ stopRecording
  \/ \E h \in Handles, last \in {0, ChunkBytes} : OnStop(h, last)
  \/ \E h \in Handles : OnLoadEnd(h)
  \/ \E h \in Handles, outcome \in ScenarioOutcomes : AnalysisResolved(h, outcome)
  \/ ShowHint
  \/ handleRetry
  \/ handleNext
  \/ handleRestart

ScenarioSpec == ScenarioInit /\ [][ScenarioNext]_vars

(* ---------------- properties ---------------- *)
\* the captures handed to the submission pipeline that are not resolved yet
Unresolved == {h \in Handles : Rec(h).phase \in {"reading", "analyzing"}}
Outstanding == {h \in Handles : Rec(h).phase = "analyzing"}
Capturing == {h \in Handles : Rec(h).phase = "capturing"}
Reading == {h \in Handles : Rec(h).phase = "reading"}

\* a step in which onloadend receives the result of analyzeRecitation

ResultReceived ==
  \/ \E h \in Handles, outcome \in ServiceOutcomes : AnalysisResolved(h, outcome)
  \/ \E h \in Handles : /\ OnLoadEnd(h)
                         /\ Base64Len(Rec(h).size) \in 1..(MinBase64Len - 1)

\* C1: at most one analyzeRecitation request is unresolved at any time, and no
\* capture is being taken while an earlier submission is still unresolved.
C1_SingleSubmissionInFlight ==
  /\ Cardinality(Outstanding) <= 1
  /\ Capturing # {} => Unresolved = {}

\* C2: whenever the practice state is Analyzing, it eventually is Feedback with
\* a FeedbackResult held (the service's, or the fallback with accuracy 0).
C2_AnalyzingLeadsToFeedback ==
  (appState = "ANALYZING") ~> (appState = "FEEDBACK" /\ feedback # NoFeedback)

C2_FallbackDelivered ==
  /\ appState = "FEEDBACK"
  /\ feedback.fallback
  /\ feedback.accuracy = 0

\* C3: while the practice state is Analyzing no user action changes the
\* practice state, the segment index, the lesson or the progress aggregates,
\* and Analyzing is left only when the outstanding analysis completes.
C3_NoUserActionWhileAnalyzing ==
  [][appState = "ANALYZING" =>
       /\ UserAction =>
            UNCHANGED <<appState, currentIndex, lessonData, totalScore, attemptCount>>
       /\ appState' # "ANALYZING" => ResultReceived]_vars

\* C4: a start gesture while the practice state is Recording or Analyzing, or
\* while the recorder of the ref is capturing, creates no recorder and leaves
\* the practice state, the chunk buffer and the start time unchanged.
C4_DuplicateStartIsNoOp ==
  [][((appState \in {"RECORDING", "ANALYZING"} \/ RecorderCapturing)
        /\ \E ok \in BOOLEAN : StartRecording(ok))
       => UNCHANGED <<appState, mediaRecorderRef, orphans, chunksRef, elapsed>>]_vars

C4_StartIgnoredWhileCapturing ==
  /\ notice = "start ignored"
  /\ RecorderCapturing
  /\ chunksRef # <<>>
  /\ elapsed > 0

\* C5: a capture whose duration at the stop event is below 500 ms is rejected
\* whatever its size: the state becomes Idle, no submission is made, and the
\* FeedbackResult and the progress aggregates stay as they were.
C5_ShortCaptureRejected ==
  [][\A h \in Handles :
       ((\E last \in {0, ChunkBytes} : OnStop(h, last)) /\ elapsed < MinDurationMs)
         => /\ appState' = "IDLE"
            /\ Cardinality(Unresolved') <= Cardinality(Unresolved)
            /\ Cardinality(Reading') <= Cardinality(Reading)
            /\ UNCHANGED <<feedback, totalScore, attemptCount>>]_vars

C5_ShortButLargeRejected ==
  /\ notice = "toast: Hold button to speak"
  /\ elapsed < MinDurationMs
  /\ SumSizes(chunksRef) >= MinBlobBytes
  /\ appState = "IDLE"
  /\ Unresolved = {}

\* C6: a capture with duration >= 500 ms and size >= 1000 bytes is accepted:
\* the state becomes Analyzing, and analyzeRecitation is called for it exactly
\* once: not before the reader has loaded, once when it has, and it does load.
C6_AcceptedSubmittedOnce ==
  /\ [][\A h \in Handles :
          ((\E last \in {0, ChunkBytes} : OnStop(h, last))
             /\ elapsed >= MinDurationMs /\ SumSizes(chunksRef') >= MinBlobBytes)
            => /\ appState' = "ANALYZING"
               /\ Rec(h)'.phase = "reading"
               /\ Rec(h)'.calls = 0]_vars
  /\ [][Cardinality(Reading') < Cardinality(Reading)
          => \E h \in Handles : OnLoadEnd(h) /\ Rec(h)'.calls = 1]_vars
  /\ [](\A h \in Handles : /\ Rec(h).phase = "reading" => Rec(h).calls = 0
                           /\ Rec(h).phase = "analyzing" => Rec(h).calls = 1
                           /\ Rec(h).calls <= 1)
  /\ \A i \in 0..MaxOrphans :
       (i \in Handles /\ Rec(i).phase = "reading")
         ~> ~(i \in Handles /\ Rec(i).phase = "reading")

C6_AcceptedAndCalledOnce ==
  /\ mediaRecorderRef.phase = "analyzing"
  /\ mediaRecorderRef.calls = 1
  /\ mediaRecorderRef.size >= MinBlobBytes
  /\ elapsed >= MinDurationMs
  /\ appState = "ANALYZING"

\* C7: a capture with duration >= 500 ms and size below 1000 bytes is rejected
\* by the size gate: the state becomes Idle, no submission is made, and the
\* notice is "Audio recording failed", not "Hold button to speak".
C7_SmallCaptureNoticeIsRecordingFailed ==
  [][\A h \in Handles :
       ((\E last \in {0, ChunkBytes} : OnStop(h, last))
          /\ elapsed >= MinDurationMs /\ SumSizes(chunksRef') < MinBlobBytes)
         => /\ appState' = "IDLE"
            /\ Cardinality(Unresolved') <= Cardinality(Unresolved)
            /\ notice' = "toast: Audio recording failed"]_vars

\* C8: when a FeedbackResult arrives, an accuracy in 80..100 adds 1 to
\* attemptCount and the accuracy to totalScore; an accuracy below 80 changes
\* neither.
C8_GoodResultCountedOnce ==
  [][ResultReceived =>
       /\ feedback'.accuracy \in GoodThreshold..100
            => /\ attemptCount' = attemptCount + 1
               /\ totalScore' = totalScore + feedback'.accuracy
       /\ feedback'.accuracy < GoodThreshold
            => UNCHANGED <<totalScore, attemptCount>>]_vars

C8_ThresholdResultCounted ==
  /\ appState = "FEEDBACK"
  /\ feedback.accuracy = GoodThreshold
  /\ attemptCount = 1
  /\ totalScore = GoodThreshold

\* C9: except at start-lesson and restart, totalScore and attemptCount never
\* decrease, and they change only when a FeedbackResult with accuracy >= 80
\* arrives.
C9_ProgressMonotoneWithinRun ==
  [][~((\E data \in SetupOutputs : onStart(data)) \/ handleRestart)
       => /\ totalScore' >= totalScore
          /\ attemptCount' >= attemptCount
          /\ (totalScore' # totalScore \/ attemptCount' # attemptCount)
               => (ResultReceived /\ feedback'.accuracy >= GoodThreshold)]_vars

C9_ProgressKeptAcrossAdvance ==
  /\ screen = "PRACTICE"
  /\ currentIndex = 1
  /\ appState = "RECORDING"
  /\ attemptCount = 1
  /\ totalScore >= GoodThreshold

\* C10: retry from Feedback leads to Idle with the FeedbackResult discarded,
\* and leaves currentIndex, totalScore, attemptCount and the lesson unchanged.
C10_RetrySameSegment ==
  [][(appState = "FEEDBACK" /\ handleRetry)
       => /\ appState' = "IDLE"
          /\ feedback' = NoFeedback
          /\ UNCHANGED <<currentIndex, totalScore, attemptCount, lessonData>>]_vars

C10_RetriedAfterGoodResult ==
  /\ screen = "PRACTICE"
  /\ appState = "IDLE"
  /\ feedback = NoFeedback
  /\ currentIndex = 0
  /\ attemptCount = 1

\* C11: the advance action from Feedback: on the last segment the state becomes
\* Completed; otherwise currentIndex grows by exactly 1, the state becomes Idle,
\* the FeedbackResult is discarded and the hint is hidden.
C11_AdvanceFromFeedback ==
  [][(appState = "FEEDBACK" /\ handleNext)
       => IF currentIndex = Len(lessonData) - 1
            THEN /\ appState' = "COMPLETED"
                 /\ screen' = "COMPLETED"
            ELSE /\ currentIndex' = currentIndex + 1
                 /\ appState' = "IDLE"
                 /\ feedback' = NoFeedback
                 /\ showEnglish' = FALSE]_vars

C11_AdvancedToSecondSegment ==
  /\ screen = "PRACTICE"
  /\ currentIndex = 1
  /\ appState = "IDLE"
  /\ feedback = NoFeedback
  /\ ~showEnglish
  /\ Len(lessonData) = 2

\* C12: while a lesson is active (practice or completed screen) currentIndex
\* is a valid index into lessonData, or equals its length only in Completed.
C12_IndexInRange ==
  screen \in {"PRACTICE", "COMPLETED"}
    => \/ currentIndex \in 0..(Len(lessonData) - 1)
       \/ currentIndex = Len(lessonData) /\ appState = "COMPLETED"

\* C13: Completed is terminal: from Completed only restart (aggregates 0/0,
\* index 0, Idle, same lesson) and return-to-setup change the practice state,
\* the segment index or the progress aggregates; no other user event and no
\* service response does.
C13_CompletedIsTerminal ==
  [][appState = "COMPLETED" =>
       /\ handleRestart => /\ currentIndex' = 0
                            /\ totalScore' = 0
                            /\ attemptCount' = 0
                            /\ appState' = "IDLE"
                            /\ lessonData' = lessonData
       /\ ~(handleRestart \/ returnToSetup)
            => UNCHANGED <<appState, currentIndex, totalScore, attemptCount>>]_vars

\* the outcomes of the service call that are failures
FailedOutcomes == {o \in ServiceOutcomes : o.kind \in {"throws", "notext", "unparsable"}}

\* C14: for each submitted capture analyzeRecitation contacts the service at
\* most once and never again after a failure; a thrown error, a response
\* without text and an unparsable response all end in the fallback result,
\* accuracy 0 with exactly one correction, handed to the caller as a result.
C14_OneContactThenFallback ==
  /\ [](\A h \in Handles : Rec(h).contacted <= 1 /\ Rec(h).contacted <= Rec(h).calls)
  /\ [][\A h \in Handles, o \in FailedOutcomes :
          AnalysisResolved(h, o)
            => /\ AnalysisResult(o).accuracy = 0
               /\ AnalysisResult(o).corrections = 1
               /\ feedback'.accuracy = 0 /\ feedback'.fallback
               /\ appState' = "FEEDBACK"
               /\ Cardinality(Outstanding') = Cardinality(Outstanding) - 1]_vars

C14_FallbackAfterServiceFailure ==
  /\ appState = "FEEDBACK"
  /\ feedback.fallback
  /\ mediaRecorderRef = FinishedRecorder
  /\ orphans = <<>>
  /\ SumSizes(chunksRef) >= MinBlobBytes
  /\ elapsed >= MinDurationMs

C16_FeedbackConformsToSchema ==
  appState = "FEEDBACK"
    => /\ feedback # NoFeedback
       /\ feedback.accuracy \in 0..100

\* C17: every analysis request carries the texts of the current segment: when
\* onloadend calls analyzeRecitation, the segment it passes is the one at
\* currentIndex of the lesson shown on the practice screen.
C17_RequestCarriesCurrentSegment ==
  [][\A h \in Handles :
       (OnLoadEnd(h) /\ Base64Len(Rec(h).size) >= MinBase64Len)
         => /\ screen = "PRACTICE"
            /\ currentIndex < Len(lessonData)
            /\ Rec(h).segment = lessonData[currentIndex + 1]]_vars

\* a step in which the onloadend of the recorder of handle h receives its result
ResultReceivedBy(h) ==
  \/ \E outcome \in ServiceOutcomes : AnalysisResolved(h, outcome)
  \/ OnLoadEnd(h) /\ Base64Len(Rec(h).size) \in 1..(MinBase64Len - 1)

\* C18: starting a lesson resets the progress (index 0, aggregates 0, no
\* FeedbackResult, hint hidden, Idle); afterwards the index and the aggregates
\* change only by that lesson's navigation and by results of attempts made in
\* that lesson, so a result that changes the aggregates while the lesson is
\* practised belongs to a segment of that lesson.
C18_ProgressOwnedByLesson ==
  /\ [][\A data \in SetupOutputs :
          onStart(data) => /\ lessonData' = data
                           /\ currentIndex' = 0
                           /\ totalScore' = 0
                           /\ attemptCount' = 0
                           /\ feedback' = NoFeedback
                           /\ showEnglish' = FALSE
                           /\ appState' = "IDLE"]_vars
  /\ [][<<currentIndex, totalScore, attemptCount>>' # <<currentIndex, totalScore, attemptCount>>
          => \/ \E data \in SetupOutputs : onStart(data)
             \/ handleNext
             \/ handleRestart
             \/ ResultReceived]_vars
  /\ [][\A h \in Handles :
          (screen = "PRACTICE" /\ ~Unmounted /\ ResultReceivedBy(h)
             /\ <<totalScore, attemptCount>>' # <<totalScore, attemptCount>>)
            => Rec(h).segment \in {lessonData[i] : i \in 1..Len(lessonData)}]_vars

\* C19: the order of a lesson's segments is fixed when the lesson is started
\* from setup: no other event (start, stop, result, retry, advance, restart,
\* return to setup) changes lessonData, and restart keeps it.
C19_OrderStableAfterStart ==
  /\ [][(\E data \in SetupOutputs : onStart(data)) \/ lessonData' = lessonData]_vars
  /\ [][handleRestart => lessonData' = lessonData]_vars

C19_ShuffledLessonInProgress ==
  /\ screen = "PRACTICE"
  /\ Len(lessonData) = 2
  /\ lessonData[1].id > lessonData[2].id
  /\ currentIndex = 1
  /\ appState = "FEEDBACK"

\* C20: the final average is totalScore / attemptCount rounded to the nearest
\* integer (halves upwards), 0 without a counted attempt, and only results of
\* 80 or more are counted: in a three-segment lesson a 90 gives (90,1), a 50
\* then leaves (90,1), a 100 then gives (190,2), advancing changes neither,
\* and the average shown at Completed for (190,2) is 95.
C20_FinalAverageRounded ==
  /\ [](screen = "COMPLETED" =>
          IF attemptCount = 0 THEN calculateFinalScore = 0
          ELSE /\ 2 * (calculateFinalScore * attemptCount - totalScore) <= attemptCount
               /\ 2 * (calculateFinalScore * attemptCount - totalScore) > - attemptCount)
  /\ [][(appState = "ANALYZING" /\ appState' = "FEEDBACK")
          => /\ (feedback'.accuracy = 90 /\ <<totalScore, attemptCount>> = <<0, 0>>)
                  => <<totalScore, attemptCount>>' = <<90, 1>>
             /\ (feedback'.accuracy = 50 /\ <<totalScore, attemptCount>> = <<90, 1>>)
                  => <<totalScore, attemptCount>>' = <<90, 1>>
             /\ (feedback'.accuracy = 100 /\ <<totalScore, attemptCount>> = <<90, 1>>)
                  => <<totalScore, attemptCount>>' = <<190, 2>>]_vars
  /\ [][handleNext => UNCHANGED <<totalScore, attemptCount>>]_vars
  /\ []((screen = "COMPLETED" /\ <<totalScore, attemptCount>> = <<190, 2>>)
          => calculateFinalScore = 95)

C20_ScenarioCompletedWith95 ==
  /\ screen = "COMPLETED"
  /\ Len(lessonData) = 3
  /\ currentIndex = 2
  /\ feedback.accuracy = 100
  /\ totalScore = 190
  /\ attemptCount = 2
  /\ calculateFinalScore = 95

\* C21: at most one recorder is capturing at any time, and every recorder
\* that was replaced by a newer one had stopped capturing before.
C21_OneCapturing ==
  /\ Cardinality({h \in Handles : Rec(h).state = "recording"}) <= 1
  /\ \A i \in 1..Len(orphans) : orphans[i].state # "recording"

C21_StartIgnoredAfterReturn ==
  /\ notice = "start ignored"
  /\ appState = "IDLE"
  /\ RecorderCapturing
  /\ screen = "PRACTICE"

\* the recorders whose stop task is queued and has not run yet
Stopping == {h \in Handles : Rec(h).phase = "stopping"}

\* C22: a stop gesture while the recorder of the ref is not capturing (none,
\* or stopped already) changes nothing: no finalization, no gate, no notice,
\* no submission, no state change; a stop gesture while it is capturing
\* queues one stop task, so the second stop signal of a gesture is ignored
\* and the capture is finalized once.
C22_StrayStopIsNoOp ==
  /\ [][(stopRecording /\ ~RecorderCapturing)
          => /\ UNCHANGED <<appVars, recVars>>
             /\ notice' = "stop ignored"]_vars
  /\ [][(stopRecording /\ RecorderCapturing)
          => /\ mediaRecorderRef'.state = "inactive"
             /\ Cardinality(Stopping') = Cardinality(Stopping) + 1
             /\ UNCHANGED <<appVars, orphans, chunksRef, elapsed>>]_vars
  /\ [][Cardinality(Stopping') > Cardinality(Stopping)
          => (stopRecording /\ RecorderCapturing)]_vars

C22_SecondStopIgnored ==
  /\ notice = "stop ignored"
  /\ mediaRecorderRef.phase = "stopping"
  /\ appState = "RECORDING"

\* C23: a start gesture without a granted audio stream fails as device
\* unavailable: the practice state stays Idle, no recorder is created, and the
\* chunk buffer and the start time are left as they were.
C23_StartWithoutStreamFails ==
  [][(~audioStream /\ \E ok \in BOOLEAN : StartRecording(ok))
       => /\ appState = "IDLE" /\ appState' = "IDLE"
          /\ UNCHANGED <<mediaRecorderRef, orphans, chunksRef, elapsed>>
          /\ notice' = "alert: Microphone not found"]_vars

C23_MicrophoneNotFound ==
  /\ notice = "alert: Microphone not found"
  /\ ~audioStream
  /\ appState = "IDLE"
  /\ mediaRecorderRef = NoRecorder

\* C24: whenever a recorder is capturing, the practice state is Recording and
\* the practice screen is shown.
C24_CapturingOnlyWhileRecording ==
  \A h \in Handles :
    Rec(h).state = "recording" => (appState = "RECORDING" /\ screen = "PRACTICE")

\* C25: whenever the practice state is Feedback on the practice screen, the
\* FeedbackResult held comes from a capture recorded for the segment at
\* currentIndex of the lesson shown.
C25_FeedbackForCurrentSegment ==
  (appState = "FEEDBACK" /\ screen = "PRACTICE" /\ ~Unmounted)
    => /\ feedback # NoFeedback
       /\ feedback.segment = lessonData[currentIndex + 1]

\* C26: the selected ids are always ids of the parsed segments, and every
\* lesson handed to startLesson has at least one segment.
C26_LessonNeverEmpty ==
  /\ selectedIds \subseteq SegmentIds(parsedSegments)
  /\ screen = "PRACTICE" => lessonData # <<>>

\* C27: the capture finalized at a recorder's stop event consists of exactly
\* the chunks that recorder delivered since its own start, and its duration
\* is measured from its own start: no other start has cleared the chunk
\* buffer or reset the start time in between (the recorder is still the one
\* of the ref), and no other recorder's chunk is in the buffer.
C27_CaptureIsOwnChunks ==
  [][\A h \in Handles, last \in {0, ChunkBytes} :
       OnStop(h, last)
         => /\ h = 0
            /\ \A i \in 1..Len(chunksRef') : chunksRef'[i].own]_vars

\* C28: in every state 80 * attemptCount <= totalScore <= 100 * attemptCount,
\* so the final average is 0 or a value in 80..100.
C28_AggregateWithinRange ==
  /\ GoodThreshold * attemptCount <= totalScore
  /\ totalScore <= 100 * attemptCount
  /\ calculateFinalScore = 0 \/ calculateFinalScore \in GoodThreshold..100

\* C29: the segment index advances, and Completed is entered, only by the
\* advance action taken in the Feedback state of the current segment, that
\* is with a FeedbackResult of a capture recorded for the segment at
\* currentIndex; so no segment is passed without an attempt on it.
C29_AdvanceOnlyAfterAttempt ==
  /\ [][handleNext
          => /\ appState = "FEEDBACK"
             /\ feedback # NoFeedback
             /\ feedback.segment = lessonData[currentIndex + 1]]_vars
  /\ [][(currentIndex' > currentIndex \/ (screen' = "COMPLETED" /\ screen # "COMPLETED"))
          => handleNext]_vars

\* how often segment seg occurs in the sequence data
Occurrences(data, seg) == Cardinality({i \in 1..Len(data) : data[i] = seg})

\* C30: the sequence handed to startLesson holds every selected segment once
\* and no other; in sequential mode in parsed order (ascending ids), in
\* shuffle mode in some order; the parsed list and the selection are left
\* unchanged.
C30_LessonIsSelection ==
  [][handleStartLesson
       => /\ \A i \in 1..Len(parsedSegments) :
               Occurrences(lessonData', parsedSegments[i])
                 = IF parsedSegments[i].id \in selectedIds THEN 1 ELSE 0
          /\ \A i \in 1..Len(lessonData') :
               \E j \in 1..Len(parsedSegments) : lessonData'[i] = parsedSegments[j]
          /\ ~isShuffle => \A i, j \in 1..Len(lessonData') :
                              i < j => lessonData'[i].id < lessonData'[j].id
          /\ UNCHANGED <<parsedSegments, selectedIds>>]_vars

C30_SecondSegmentOnly ==
  /\ screen = "PRACTICE"
  /\ Len(parsedSegments) = 2
  /\ selectedIds = {2}
  /\ lessonData = <<parsedSegments[2]>>
====
